---- MODULE Spec2Model ----
(***************************************************************************)
(* Bond_Optimizer: build_and_solve (model.py) and the scenario sweep       *)
(* (scenario.py), with the configuration of config.py.                     *)
(*                                                                         *)
(* Number representation.  A weight is a pair [g, r]: g counts grid steps  *)
(* of 1/Steps (0.05) and r is a residual in units of 1e-11.  The value is  *)
(* g/Steps + r * 1e-11; |r| stays far below one grid step, so values       *)
(* compare lexicographically on (g, r).  Yields are in units of 1/10000    *)
(* (basis points), durations in years, ratings in rating points.           *)
(***************************************************************************)
EXTENDS Integers, Sequences, FiniteSets, TLC

\* ------------------------------------------------------------- bounds
MaxAssets == 2      \* longest asset universe
MaxNoise == 6       \* largest solver residual per weight, in units of 1e-11

\* ------------------------------------------------------------- units
Steps == 20         \* 1.0 = 20 steps of 0.05, the finest value of config.py
Tol8 == 1000        \* 1e-8 in residual units (1e-11)
Tol6 == 100000      \* 1e-6 in residual units (1e-11)

\* Optional values: None is <<>>, a supplied value v is <<v>>.
None == <<>>
Some(v) == <<v>>
IsNone(x) == x = <<>>
Get(x) == x[1]

\* ------------------------------------------------------------- config.py
\* dicts are association lists in insertion order: <<key, lower, upper>>
SECTOR_BOUNDS ==
  << <<"TSY", 2, 20>>, <<"ABS", 0, 4>>, <<"MBS", 0, 8>>,
     <<"Corp", 0, 10>>, <<"High Yield", 0, 1>> >>
DURATION_BOUNDS == <<2, 8>>
MIN_SAME_DAY == 4
MAX_RATING_NUM == 5

\* ------------------------------------------------------------- inputs
\* The rows an asset universe is drawn from.  "Muni" is a sector no
\* default bound names.
Catalogue ==
  { [id |-> "T", sector |-> "TSY", yield |-> 200, duration |-> 2,
     quality_num |-> 1, liquidity_label |-> "Same Day",
     asset_level_min_weight |-> 0, asset_level_max_weight |-> 20],
    [id |-> "B", sector |-> "MBS", yield |-> 100, duration |-> 3,
     quality_num |-> 2, liquidity_label |-> "Next Day",
     asset_level_min_weight |-> 0, asset_level_max_weight |-> 20],
    [id |-> "C", sector |-> "Corp", yield |-> 400, duration |-> 6,
     quality_num |-> 4, liquidity_label |-> "Next Day",
     asset_level_min_weight |-> 0, asset_level_max_weight |-> 20],
    [id |-> "H", sector |-> "High Yield", yield |-> 700, duration |-> 5,
     quality_num |-> 12, liquidity_label |-> "Next Day",
     asset_level_min_weight |-> 0, asset_level_max_weight |-> 10],
    [id |-> "M", sector |-> "Muni", yield |-> 500, duration |-> 4,
     quality_num |-> 3, liquidity_label |-> "Same Day",
     asset_level_min_weight |-> 2, asset_level_max_weight |-> 18] }

\* Asset universes: rows with distinct ids, 1..MaxAssets of them.
Universes ==
  { u \in UNION { [1..n -> Catalogue] : n \in 1..MaxAssets } :
      \A i, j \in DOMAIN u : i # j => u[i].id # u[j].id }

\* ------------------------------------------------------------- vectors
Column(d, f) == [i \in 1..Len(d) |-> d[i][f]]

RECURSIVE DotTo(_, _, _)
DotTo(a, b, k) == IF k = 0 THEN 0 ELSE a[k] * b[k] + DotTo(a, b, k - 1)
\* a @ b
Dot(a, b) == DotTo(a, b, Len(a))

\* the 0/1 coefficient vector of cp.sum(w[mask])
MaskOf(d, f, v) == [i \in 1..Len(d) |-> IF d[i][f] = v THEN 1 ELSE 0]
Unit(n, k) == [i \in 1..n |-> IF i = k THEN 1 ELSE 0]
Ones(n) == [i \in 1..n |-> 1]

\* ------------------------------------------------------------- requests
\* One call of build_and_solve: the keyword arguments the caller passes.
\* min_same_day and max_rating_num are names the signature (model.py 9-14)
\* does not have.
DefaultRequest ==
  [sector_bounds |-> None, duration_bounds |-> None, solver |-> "ECOS",
   min_same_day |-> None, max_rating_num |-> None]

\* the override the dashboard builds: every lower cap 0, upper caps chosen
SliderCaps ==
  << <<"TSY", 0, 20>>, <<"ABS", 0, 4>>, <<"MBS", 0, 8>>,
     <<"Corp", 0, 20>>, <<"High Yield", 0, 1>> >>
\* an override with other keys and a positive lower cap
CustomCaps == << <<"Corp", 4, 10>>, <<"Muni", 0, 10>> >>

Requests ==
  { DefaultRequest,
    [DefaultRequest EXCEPT !.sector_bounds = Some(SliderCaps)],
    [DefaultRequest EXCEPT !.sector_bounds = Some(CustomCaps)],
    [DefaultRequest EXCEPT !.duration_bounds = Some(<<4, 6>>)],
    [DefaultRequest EXCEPT !.solver = "SCS"],
    [DefaultRequest EXCEPT !.solver = "NOSUCH"],
    [DefaultRequest EXCEPT !.sector_bounds = Some(SliderCaps),
                           !.duration_bounds = Some(<<4, 6>>),
                           !.solver = "SCS"],
    [DefaultRequest EXCEPT !.min_same_day = Some(10)],
    [DefaultRequest EXCEPT !.max_rating_num = Some(3)] }

\* ------------------------------------------------------------- builder
\* A constraint row: coef . w  cmp  rhs, rhs in grid steps.
Row(tag, coef, cmp, rhs) ==
  [tag |-> tag, coef |-> coef, cmp |-> cmp, rhs |-> rhs]

\* a bound stated in whole units (years, rating points), in grid steps
Whole(x) == x * Steps

\* faulty variant: the override is ignored
EffectiveSectorDefault(rq) == SECTOR_BOUNDS

EffectiveSector(rq) ==
  IF ~IsNone(rq.sector_bounds) THEN Get(rq.sector_bounds) ELSE SECTOR_BOUNDS

EffectiveDuration(rq) ==
  IF ~IsNone(rq.duration_bounds) THEN Get(rq.duration_bounds)
  ELSE DURATION_BOUNDS

\* w >= wmin, w <= wmax: one row per asset
BoxRows(d, tag, f, cmp) ==
  [k \in 1..Len(d) |-> Row(tag, Unit(Len(d), k), cmp, d[k][f])]

\* faulty variant: cp.sum(w) >= 1
SumRowAtLeast(d) == Row("sum", Ones(Len(d)), "ge", Whole(1))

SumRow(d) == Row("sum", Ones(Len(d)), "eq", Whole(1))

DurationRows(d, eff) ==
  << Row("dur_min", Column(d, "duration"), "ge", Whole(eff[1])),
     Row("dur_max", Column(d, "duration"), "le", Whole(eff[2])) >>

RatingRow(d) ==
  Row("rating", Column(d, "quality_num"), "le", Whole(MAX_RATING_NUM))

\* faulty variant: the mask of another liquidity label
SameDayRowOtherLabel(d) ==
  Row("same_day", MaskOf(d, "liquidity_label", "Next Day"), "ge",
      MIN_SAME_DAY)

SameDayRow(d) ==
  Row("same_day", MaskOf(d, "liquidity_label", "Same Day"), "ge",
      MIN_SAME_DAY)

BaseConstraints(d, effDur) ==
  BoxRows(d, "wmin", "asset_level_min_weight", "ge")
    \o BoxRows(d, "wmax", "asset_level_max_weight", "le")
    \o << SumRow(d) >>
    \o DurationRows(d, effDur)
    \o << RatingRow(d), SameDayRow(d) >>

\* faulty variant: the upper row is appended only under "if lo > 0"
SectorRowsUpperUnderIf(d, e) ==
  LET mask == MaskOf(d, "sector", e[1])
  IN IF e[2] > 0
     THEN << Row("sector_lo", mask, "ge", e[2]),
             Row("sector_hi", mask, "le", e[3]) >>
     ELSE << >>

\* faulty variant: a sector without assets is skipped
SectorRowsSkipEmpty(d, e) ==
  LET mask == MaskOf(d, "sector", e[1])
  IN IF \A k \in 1..Len(d) : mask[k] = 0 THEN << >>
     ELSE (IF e[2] > 0 THEN << Row("sector_lo", mask, "ge", e[2]) >>
           ELSE << >>)
            \o << Row("sector_hi", mask, "le", e[3]) >>

\* the rows one sector entry <<s, lo, hi>> adds
SectorRows(d, e) ==
  LET mask == MaskOf(d, "sector", e[1])
  IN (IF e[2] > 0 THEN << Row("sector_lo", mask, "ge", e[2]) >> ELSE << >>)
       \o << Row("sector_hi", mask, "le", e[3]) >>

RECURSIVE SectorConstraints(_, _, _)
SectorConstraints(d, sb, k) ==
  IF k = 0 THEN << >>
  ELSE SectorConstraints(d, sb, k - 1) \o SectorRows(d, sb[k])

Constraints(d, rq) ==
  BaseConstraints(d, EffectiveDuration(rq))
    \o SectorConstraints(d, EffectiveSector(rq), Len(EffectiveSector(rq)))

\* ------------------------------------------------------------- backend
Sat(c, w) ==
  LET v == Dot(c.coef, w)
  IN CASE c.cmp = "ge" -> v >= c.rhs
       [] c.cmp = "le" -> v <= c.rhs
       [] c.cmp = "eq" -> v = c.rhs

RECURSIVE SatFrom(_, _, _)
SatFrom(cons, w, k) ==
  k > Len(cons) \/ (Sat(cons[k], w) /\ SatFrom(cons, w, k + 1))

\* the values of w[k] that the rows on w[k] alone allow
Range(cons, n, k) ==
  { x \in 0..Steps :
      \A j \in 1..Len(cons) :
        cons[j].coef = Unit(n, k) => Sat(cons[j], [m \in 1..n |-> IF m = k THEN x ELSE 0]) }

RECURSIVE Grid(_, _, _)
Grid(cons, n, k) ==
  IF k = 0 THEN { << >> }
  ELSE LET rng == Range(cons, n, k)
           pre == Grid(cons, n, k - 1)
       IN { Append(p, x) : p \in pre, x \in rng }

\* the grid points that satisfy every row
Feasible(cons, n) == { w \in Grid(cons, n, n) : SatFrom(cons, w, 1) }

Best(obj, feas) ==
  CHOOSE b \in { Dot(obj, v) : v \in feas } :
    \A c \in { Dot(obj, v) : v \in feas } : c <= b

ArgMax(obj, feas) ==
  LET b == Best(obj, feas) IN { w \in feas : Dot(obj, w) = b }

\* residuals the backend may leave on the weights it returns
NoiseVecs(n) == { [i \in 1..n |-> s * MaxNoise] : s \in {-1, 0, 1} }

Backends == {"ECOS", "SCS", "OSQP", "CVXOPT"}

\* What prob.solve can do on Maximize(obj @ w) subject to cons: raise
\* SolverError, report infeasible with no value, or report optimal with a
\* maximiser carrying a residual.  Every variable is boxed on a finite
\* grid, so no problem of the model is unbounded.
BackendReports(solver, obj, cons, n) ==
  LET feas == Feasible(cons, n)
  IN { [solver |-> solver, status |-> "solver_error", value |-> None] }
       \cup (IF feas = {}
             THEN { [solver |-> solver, status |-> "infeasible",
                     value |-> None] }
             ELSE { [solver |-> solver, status |-> "optimal",
                     value |-> Some([i \in 1..n |-> [g |-> w[i], r |-> e[i]]])] :
                      w \in ArgMax(obj, feas), e \in NoiseVecs(n) })

\* ------------------------------------------------------------- extraction
\* np.round(r * 1e-11, 10) in units of 1e-11: the nearest multiple of 1e-10,
\* a tie going to the even multiple
Round10(r) ==
  LET q == r \div 10
      m == r % 10
  IN IF m < 5 THEN 10 * q
     ELSE IF m > 5 THEN 10 * (q + 1)
     ELSE IF q % 2 = 0 THEN 10 * q ELSE 10 * (q + 1)

RoundWeights(v) == [i \in 1..Len(v) |-> [g |-> v[i].g, r |-> Round10(v[i].r)]]

\* coef @ weights as a pair
DotW(coef, ws) ==
  [g |-> Dot(coef, [i \in 1..Len(ws) |-> ws[i].g]),
   r |-> Dot(coef, [i \in 1..Len(ws) |-> ws[i].r])]

Diagnostics(d, ws) ==
  [yield_ |-> DotW(Column(d, "yield"), ws),
   duration |-> DotW(Column(d, "duration"), ws),
   rating_num |-> DotW(Column(d, "quality_num"), ws)]

Returned(ws, dg) ==
  [kind |-> "return", exc |-> "", at |-> 101, weights |-> ws, diag |-> Some(dg)]
Raised(exc, line) ==
  [kind |-> "raise", exc |-> exc, at |-> line, weights |-> << >>, diag |-> None]
NoResult ==
  [kind |-> "none", exc |-> "", at |-> 0, weights |-> << >>, diag |-> None]

\* lines 93-101 on the backend's report
Extract(d, b) ==
  IF b.status = "solver_error" THEN Raised("SolverError", 91)
  ELSE IF IsNone(b.value) THEN Raised("TypeError", 94)
  ELSE LET ws == RoundWeights(Get(b.value))
       IN Returned(ws, Diagnostics(d, ws))

NotSolved == [solver |-> "", status |-> "not called", value |-> None]

\* Every way one call build_and_solve(d, **rq) can go.
BuildAndSolve(d, rq) ==
  IF ~IsNone(rq.min_same_day) \/ ~IsNone(rq.max_rating_num)
  THEN { [constraints |-> << >>, backend |-> NotSolved,
          result |-> Raised("TypeError", 9)] }
  ELSE LET cons == Constraints(d, rq)
       IN IF rq.solver \notin Backends
          THEN { [constraints |-> cons, backend |-> NotSolved,
                  result |-> Raised("AttributeError", 90)] }
          ELSE { [constraints |-> cons, backend |-> b,
                  result |-> Extract(d, b)] :
                   b \in BackendReports(rq.solver, Column(d, "yield"), cons,
                                       Len(d)) }


\* ------------------------------------------------------------- scenario.py
\* the lists of shocks run_scenarios is handed; the first is its default
ShockLists ==
  { <<-100, 0, 100>>, <<0, 100>>, <<100, 0>>, <<100, 100, 25>>, <<-50>>,
    << >> }

\* faulty variant: the shock is subtracted
BumpedDown(y, bp) == y - bp

\* yield + bp / 10000, in units of 1/10000
Bumped(y, bp) == y + bp

\* faulty variant: bumped = df, no copy: the caller's frame gets the column too
AliasAssign(d, col) ==
  LET new == [k \in 1..Len(d) |-> [d[k] EXCEPT !.yield = col[k]]]
  IN [base |-> new, bumped |-> new]

\* bumped = df.copy(); bumped['yield'] = col: the caller's frame keeps its
\* column, the copy gets the new one
CopyAssign(d, col) ==
  [base |-> d, bumped |-> [k \in 1..Len(d) |-> [d[k] EXCEPT !.yield = col[k]]]]

\* bump_yields(d, bp): the caller's frame after the call, and the frame
\* returned
bump_yields(d, bp) ==
  CopyAssign(d, [k \in 1..Len(d) |-> Bumped(d[k].yield, bp)])

\* f"{shock:+}bp"
Label(shock) ==
  (IF shock >= 0 THEN "+" \o ToString(shock) ELSE "-" \o ToString(-shock))
    \o "bp"

\* out[key] = d
Store(m, key, d) == (key :> d) @@ m

\* ------------------------------------------------------------- state
VARIABLES
  df,           \* the asset universe the caller holds
  pc,           \* "idle", or "sweep" inside run_scenarios' loop
  req,          \* arguments of the latest build_and_solve call
  call_df,      \* the frame that call was given
  constraints,  \* the constraint list that call built
  backend,      \* what prob.solve reported in that call
  result,       \* how that call ended
  bps,          \* run_scenarios: the shocks
  i,            \* run_scenarios: position of the next shock
  out,          \* run_scenarios: the dict being filled
  entry_df,     \* the universe as it was when run_scenarios was entered
  sweep,        \* "none", "running", "returned" or "raised"
  ret           \* what run_scenarios returned

vars ==
  << df, pc, req, call_df, constraints, backend, result,
     bps, i, out, entry_df, sweep, ret >>

callVars == << req, call_df, constraints, backend, result >>
sweepVars == << bps, i, out, entry_df, sweep, ret >>

Init ==
  /\ df \in Universes
  /\ pc = "idle"
  /\ req = DefaultRequest
  /\ call_df = << >>
  /\ constraints = << >>
  /\ backend = NotSolved
  /\ result = NoResult
  /\ bps = << >>
  /\ i = 0
  /\ out = << >>
  /\ entry_df = << >>
  /\ sweep = "none"
  /\ ret = None

\* a caller (cli.py 42, streamlit_app.py 70, the tests) solves once; a
\* behaviour is one top-level operation, a solve or a sweep
Solve ==
  /\ pc = "idle"
  /\ sweep = "none"
  /\ result = NoResult
  /\ \E rq \in Requests : \E o \in BuildAndSolve(df, rq) :
       /\ req' = rq
       /\ call_df' = df
       /\ constraints' = o.constraints
       /\ backend' = o.backend
       /\ result' = o.result
  /\ UNCHANGED << df, pc >>
  /\ UNCHANGED sweepVars

\* run_scenarios(df, b) is entered (scenario.py 25, 36)
RunScenarios ==
  /\ pc = "idle"
  /\ sweep = "none"
  /\ result = NoResult
  /\ \E b \in ShockLists : bps' = b
  /\ pc' = "sweep"
  /\ i' = 1
  /\ out' = << >>
  /\ entry_df' = df
  /\ sweep' = "running"
  /\ UNCHANGED << df, ret >>
  /\ UNCHANGED callVars

\* one pass of the loop body (scenario.py 37-43); an exception of
\* build_and_solve leaves run_scenarios
Scenario ==
  /\ pc = "sweep"
  /\ i <= Len(bps)
  /\ LET b == bump_yields(df, bps[i])
     IN /\ df' = b.base
        /\ \E o \in BuildAndSolve(b.bumped, DefaultRequest) :
             /\ req' = DefaultRequest
             /\ call_df' = b.bumped
             /\ constraints' = o.constraints
             /\ backend' = o.backend
             /\ result' = o.result
             /\ IF o.result.kind = "return"
                THEN /\ out' = Store(out, Label(bps[i]), Get(o.result.diag))
                     /\ i' = i + 1
                     /\ UNCHANGED << pc, sweep >>
                ELSE /\ pc' = "idle"
                     /\ sweep' = "raised"
                     /\ UNCHANGED << out, i >>
  /\ UNCHANGED << bps, entry_df, ret >>

\* return out (scenario.py 44)
Return ==
  /\ pc = "sweep"
  /\ i > Len(bps)
  /\ pc' = "idle"
  /\ sweep' = "returned"
  /\ ret' = Some(out)
  /\ UNCHANGED << df, bps, i, out, entry_df >>
  /\ UNCHANGED callVars

Next == Solve \/ RunScenarios \/ Scenario \/ Return

Spec == Init /\ [][Next]_vars

\* ============================================================= claims
\* comparisons of a pair [g, r] with a bound of b grid steps, within tol
AtLeast(x, b, tol) == x.g > b \/ (x.g = b /\ x.r >= -tol)
AtMost(x, b, tol) == x.g < b \/ (x.g = b /\ x.r <= tol)
NotBelow(x, y) == x.g > y.g \/ (x.g = y.g /\ x.r >= y.r)

\* the latest build_and_solve call returned weights
Succeeded == result.kind = "return"
\* the sector bounds in effect for the latest call, spelled out
InEffectSector ==
  IF req.sector_bounds = None THEN SECTOR_BOUNDS ELSE req.sector_bounds[1]
InEffectDuration ==
  IF req.duration_bounds = None THEN DURATION_BOUNDS
  ELSE req.duration_bounds[1]
SectorWeight(s) == DotW(MaskOf(call_df, "sector", s), result.weights)
SameDayWeight ==
  DotW(MaskOf(call_df, "liquidity_label", "Same Day"), result.weights)
TotalWeight == DotW(Ones(Len(result.weights)), result.weights)
RowsTagged(tag) ==
  { constraints[j] : j \in { m \in 1..Len(constraints) : constraints[m].tag = tag } }

ValueLess == backend.status # "not called" /\ backend.value = None
\* C4 (as claimed): an infeasible, unbounded or value-less report surfaces
\* as Infeasible, Unbounded or SolverFailure respectively, and no weights
\* or diagnostics are returned.
C4_DistinctFailures ==
  ValueLess =>
    /\ result.kind = "raise"
    /\ result.weights = << >>
    /\ result.diag = None
    /\ backend.status = "infeasible" => result.exc = "Infeasible"
    /\ backend.status = "unbounded" => result.exc = "Unbounded"
    /\ backend.status \notin {"infeasible", "unbounded"} =>
         result.exc \in {"SolverFailure", "SolverError"}

SweepOver == sweep \in {"returned", "raised"}
\* C5 (as claimed): when run_scenarios is over, it has returned a mapping
\* that holds an entry for every shock of the list.
C5_SweepIsolation ==
  SweepOver =>
    /\ ret # None
    /\ \A k \in 1..Len(bps) : Label(bps[k]) \in DOMAIN ret[1]

\* the rows a sector mapping sb must have put in the constraint list
SectorApplied(sb) ==
  /\ \A k \in 1..Len(sb) :
       LET mask == MaskOf(call_df, "sector", sb[k][1])
       IN /\ \E c \in RowsTagged("sector_hi") :
               c.coef = mask /\ c.rhs = sb[k][3]
          /\ sb[k][2] > 0 =>
               \E c \in RowsTagged("sector_lo") :
                 c.coef = mask /\ c.rhs = sb[k][2]
  /\ \A c \in RowsTagged("sector_hi") \cup RowsTagged("sector_lo") :
       \E k \in 1..Len(sb) :
         /\ c.coef = MaskOf(call_df, "sector", sb[k][1])
         /\ c.rhs = IF c.tag = "sector_hi" THEN sb[k][3] ELSE sb[k][2]
DurationApplied(db) ==
  /\ \A c \in RowsTagged("dur_min") : c.rhs = db[1] * Steps
  /\ \A c \in RowsTagged("dur_max") : c.rhs = db[2] * Steps
  /\ RowsTagged("dur_min") # {} /\ RowsTagged("dur_max") # {}
SameDayApplied(v) ==
  RowsTagged("same_day") # {} /\ \A c \in RowsTagged("same_day") : c.rhs = v
RatingApplied(v) ==
  RowsTagged("rating") # {} /\ \A c \in RowsTagged("rating") : c.rhs = v * Steps
SolverApplied == backend.status # "not called" => backend.solver = req.solver
Called == result.kind # "none"

Unmapped(j) ==
  \A k \in 1..Len(InEffectSector) : InEffectSector[k][1] # call_df[j].sector
\* C7 (as claimed): no call returns weights for a universe holding an asset
\* whose sector is no key of the bounds in effect.
C7_UnmappedSectorRejected ==
  Succeeded => \A j \in 1..Len(call_df) : ~Unmapped(j)

\* C8: in what run_scenarios returns, the yield under a strictly positive
\* shock is not lower than the yield under the zero shock.
C8_Monotone ==
  ret # None =>
    \A k \in 1..Len(bps) :
      (bps[k] > 0 /\ Label(bps[k]) \in DOMAIN ret[1]
         /\ Label(0) \in DOMAIN ret[1])
        => NotBelow(ret[1][Label(bps[k])].yield_, ret[1][Label(0)].yield_)
\* a returned sweep holding the zero shock and a positive one
C8_Witness ==
  /\ ret # None
  /\ Label(0) \in DOMAIN ret[1]
  /\ \E k \in 1..Len(bps) : bps[k] > 0 /\ Label(bps[k]) \in DOMAIN ret[1]

\* position of the shock whose scenario was solved last
LastSolved == IF sweep = "raised" THEN i ELSE i - 1
\* C9: during and after run_scenarios the caller's universe is the one it
\* entered with, and the scenario solved last was given the entry yields
\* plus its own shock only.
C9_BaseNotMutated ==
  sweep # "none" =>
    /\ df = entry_df
    /\ LastSolved >= 1 =>
         /\ Len(call_df) = Len(entry_df)
         /\ \A j \in 1..Len(entry_df) :
              call_df[j] =
                [entry_df[j] EXCEPT !.yield = entry_df[j].yield + bps[LastSolved]]
\* the third scenario of a sweep was solved after two non-zero shocks
C9_Witness ==
  /\ sweep = "returned"
  /\ Len(bps) = 3 /\ bps[1] # 0 /\ bps[2] # 0 /\ bps[3] # 0

\* entry k of the bounds in effect has a positive lower cap and no asset
EmptySectorWithFloor(k) ==
  /\ InEffectSector[k][2] > 0
  /\ \A j \in 1..Len(call_df) : call_df[j].sector # InEffectSector[k][1]
\* C10: when the bounds in effect name a sector with a positive lower cap
\* that no asset belongs to, the lower row over the empty set is in the
\* constraint list, the backend (when it reports) reports infeasible, and
\* no weights are returned.
C10_EmptySectorInfeasible ==
  \A k \in 1..Len(InEffectSector) :
    (constraints # << >> /\ EmptySectorWithFloor(k)) =>
      /\ \E c \in RowsTagged("sector_lo") :
           /\ c.rhs = InEffectSector[k][2]
           /\ \A j \in 1..Len(call_df) : c.coef[j] = 0
      /\ ~Succeeded
      /\ backend.status \notin {"not called", "solver_error"} =>
           backend.status = "infeasible"
\* such a call, with the backend reporting infeasible
C10_Witness ==
  /\ constraints # << >>
  /\ \E k \in 1..Len(InEffectSector) : EmptySectorWithFloor(k)
  /\ backend.status = "infeasible"
  /\ result.kind = "raise"

====
